---- MODULE Spec2Model ----
(***************************************************************************)
(* Workflow orchestration of the content pipeline:                         *)
(*   WorkflowManager.execute_workflow  (scripts/workflow_manager.py)       *)
(*   BatchProcessor.process_batch      (scripts/batch_processor.py)        *)
(* The step handlers call external providers and the file system; their    *)
(* failures are the environment's choice, drawn with \E in the actions.    *)
(***************************************************************************)
EXTENDS Integers, Sequences, FiniteSets, TLC

(* ------------------------------ bounds --------------------------------- *)
\* longest list of results given to generate_batch_report
MaxResults == 5
\* the publish dates explored lie in the years 2023 .. 2023 + MaxYears
MaxYears == 1
\* longest config.steps sequence explored
MaxSteps == 2
\* largest idea_count / script_count explored
MaxCount == 2
\* largest number of items of a batch configuration a workflow step reads
MaxItems == 2
\* largest number of items of a batch configuration given to process_batch
MaxBatchItems == 3
\* largest max_workers of a batch configuration
MaxWorkers == 3
\* last value of the wall clock the batch workers read
MaxTime == 2
\* execute_workflow calls on one WorkflowManager instance (SpecReuse)
MaxRuns == 2
\* create_publishing_schedule calls on one weekly plan
MaxCalls == 2

(* ----------------------------- vocabulary ------------------------------ *)
\* WorkflowStep enum values
Steps ==
  {"generate_ideas", "generate_scripts", "quality_check",
   "generate_metadata", "batch_process", "create_schedule"}

\* None for the two timestamps; datetime.now() values are 1, 2, ...
None == 0

\* What config.input_vars["batch_file"] names.
\*   absent  : no path given (key missing, None or "")
\*   missing : a path to a file that does not exist
\*   invalid : a path to a file that is not valid JSON
\*   valid   : a path to a JSON batch configuration
BatchFileKinds == {"absent", "missing", "invalid", "valid"}

\* The content of a valid batch configuration, as process_batch tells it apart.
BatchShapes == {"no_items", "empty_items", "bad_type", "ok"}

\* The batch configuration read when none is read (a placeholder).
NoBatch == [shape |-> "no_items", n |-> 0, continue_on_error |-> TRUE]

BatchContents ==
  {[shape |-> s, n |-> 0, continue_on_error |-> TRUE] :
      s \in {"no_items", "empty_items"}}
  \cup {[shape |-> "bad_type", n |-> 1, continue_on_error |-> TRUE]}
  \cup {[shape |-> "ok", n |-> k, continue_on_error |-> c] :
      k \in 1..MaxItems, c \in BOOLEAN}

\* A file path: <<kind, number>>.
File(kind, k) == <<kind, k>>

\* The empty dict {}; each handler returns a dict with at least one key.
EmptyResult == [type |-> "", count |-> 0, items |-> <<>>]

\* Python truthiness of a handler's return value (the test `if result:`).
Truthy(result) == result # EmptyResult

Min(a, b) == IF a < b THEN a ELSE b

\* Injective maps 1..m -> 1..n: the orders in which m of n items can arrive.
Injections(m, n) ==
  {f \in [1..m -> 1..n] : \A a, b \in 1..m : a # b => f[a] # f[b]}

(* ------------------------ WorkflowConfig inputs ------------------------ *)
StepSeqs == UNION {[1..k -> Steps] : k \in 0..MaxSteps}

Uses(steps, s) == \E k \in 1..Len(steps) : steps[k] = s

\* The values of a parameter that the handlers of `steps` can tell apart: a
\* parameter none of them reads in this configuration is kept at `rest`.
ParamValues(read, values, rest) == IF read THEN values ELSE {rest}

ReadsBatchFile(steps) ==
  Uses(steps, "generate_scripts") \/ Uses(steps, "batch_process")

MakeConfig(steps, coe, hv, wp, ic, sc, bf, bc) ==
  [steps |-> steps, continue_on_error |-> coe, has_input_vars |-> hv,
   weekly_plan |-> wp, idea_count |-> ic, script_count |-> sc,
   batch_file |-> bf, batch |-> bc]

NoConfig ==
  [steps |-> <<>>, continue_on_error |-> FALSE, has_input_vars |-> FALSE,
   weekly_plan |-> FALSE, idea_count |-> 0, script_count |-> 0,
   batch_file |-> "absent", batch |-> NoBatch]

(* ------------------------------- state --------------------------------- *)
VARIABLES
  pc,              \* where execute_workflow is: idle, loop, handler, abort,
                   \* returned, raised, exited
  config,          \* the WorkflowConfig of the current call
  idx,             \* position of the for loop in config.steps (1-based)
  workflow_state,  \* self.workflow_state
  disk,            \* the files written so far
  clock,           \* the next value of datetime.now()
  runs,            \* history: execute_workflow calls made on this instance
  invoked,         \* history: the steps whose handler this call has invoked
  finished,        \* history: how each of these handler calls ended
  end_writes,      \* history: assignments to end_time made by this call
  batch_returned   \* history: what process_batch returned to the handler
                   \* call that began last

wfvars ==
  <<pc, config, idx, workflow_state, disk, clock, runs, invoked, finished,
    end_writes, batch_returned>>

VARIABLES
  bpc,             \* where process_batch is: idle, collect, cancel,
                   \* shutdown, returned, raised
  batch_config,    \* self.batch_config
  future,          \* state of the future of each submitted item
  future_result,   \* what the item's processor function returned
  yielded,         \* the futures as_completed has yielded
  results,         \* self.results
  now,             \* the wall clock the workers read
  cancel_next,     \* position of the loop `for f in future_to_index`
  failing,         \* environment: the items whose handling raises (a pillar
                   \* the generator rejects, a provider or write failure)
  started          \* history: the items whose processor function was entered

bvars ==
  <<bpc, batch_config, future, future_result, yielded, results, now,
    cancel_next, failing, started>>

VARIABLES
  report_input,    \* the `results` argument of generate_batch_report
  report,          \* the report it returned
  weekly_plan,     \* the argument of create_publishing_schedule
  schedule,        \* the schedule it returned
  schedule_calls   \* history: create_publishing_schedule calls made

rvars == <<report_input, report, weekly_plan, schedule, schedule_calls>>

VARIABLES
  args,            \* the argparse namespace of the workflow command
  main_pc,         \* where main is: none (no command runs), start,
                   \* construct, configure, try, and how it ended: ended
                   \* (its last line), exited (sys.exit), uncaught (an
                   \* exception left it)
  exit_status,     \* the exit status of the process (NotEnded: still running)
  wf_report        \* the report main had generate_workflow_report build

mvars == <<args, main_pc, exit_status, wf_report>>

vars == <<wfvars, bvars, rvars, mvars>>

(* ------------------------ the batch runner's call ---------------------- *)
\* The path process_single_script writes item `index` to when the item
\* names no file: script_{index+1}_{timestamp}.json.
ItemFile(index) == File("batch_item", index)

\* The lists process_batch can return for a well-formed configuration: one
\* result per collected future, in the order as_completed yields them; with
\* continue_on_error false the loop is left at the first error result.
BatchReturns(bc) ==
  IF bc.continue_on_error
  THEN {[k \in 1..bc.n |-> [index |-> p[k], status |-> st[k]]] :
          p \in Injections(bc.n, bc.n),
          st \in [1..bc.n -> {"success", "error"}]}
  ELSE {[k \in 1..bc.n |-> [index |-> p[k], status |-> "success"]] :
          p \in Injections(bc.n, bc.n)}
       \cup UNION {
          {[k \in 1..m |-> [index |-> p[k],
                            status |-> IF k = m THEN "error" ELSE "success"]] :
             p \in Injections(m, bc.n)} : m \in 1..bc.n}

Successes(rs) == SelectSeq(rs, LAMBDA r : r.status = "success")

\* the item file of each result, in order
ItemFiles(rs) == [k \in 1..Len(rs) |-> ItemFile(rs[k].index)]

Range(seq) == {seq[k] : k \in 1..Len(seq)}

(* ----------------------------- step handlers --------------------------- *)
\* One way a handler call can end:
\*   outcome  ok (returns), error (raises an Exception), exit (sys.exit)
\*   error    str(e) of the Exception
\*   files    the paths it appended to generated_files, in order
\*   unlisted the paths it wrote without appending them
\*   result   the dict it returns
\*   quality  the value it assigns to quality_results ("" : none)
\*   sets_md, metadata: whether and what it assigns to metadata_results
\*   batch    whether process_batch returned to it, and the list returned
NotCalled == [called |-> FALSE, results |-> <<>>]

Ended(outcome, error, files, unlisted, result) ==
  [outcome |-> outcome, error |-> error, files |-> files,
   unlisted |-> unlisted, result |-> result, quality |-> "",
   sets_md |-> FALSE, metadata |-> <<>>, batch |-> NotCalled]

Returned(files, unlisted, result) == Ended("ok", "", files, unlisted, result)

Raised(error, files) == Ended("error", error, files, {}, EmptyResult)

Exited == Ended("exit", "", <<>>, {}, EmptyResult)

\* config.input_vars is read by every handler; WorkflowConfig declares
\* input_params, so the attribute exists only if the caller has set it.
NoInputVars == Raised("AttributeError: input_vars", <<>>)

\* for i in range(count): provider call, write, append <kind>_{i+1}.json
\* The provider call or the write of iteration j can fail, after j-1 appends.
CountedRuns(kind, count, type) ==
  {Returned([k \in 1..count |-> File(kind, k)], {},
            [type |-> type, count |-> count, items |-> <<>>])}
  \cup {Raised("generation error", [k \in 1..(j - 1) |-> File(kind, k)]) :
          j \in 1..count}

\* BatchProcessor.load_batch_config followed by process_batch's validation
\* and run; `adopted` holds the handler's ending for each list that
\* process_batch can return.
BatchRuns(c, adopted) ==
  CASE c.batch_file \in {"missing", "invalid"} -> {Exited}
    [] c.batch.shape = "no_items" ->
          {Raised("Batch configuration must contain 'items' key", <<>>)}
    [] c.batch.shape = "empty_items" ->
          {Raised("Batch configuration must contain at least one item", <<>>)}
    [] c.batch.shape = "bad_type" ->
          {Raised("Unknown process type", <<>>)}
    [] OTHER -> adopted

\* execute_generate_ideas
GenerateIdeasRuns(c) ==
  IF ~c.has_input_vars THEN {NoInputVars}
  ELSE IF c.weekly_plan
  THEN {Returned(<<File("weekly_content_plan", 0)>>, {},
                 [type |-> "weekly_plan", count |-> 7, items |-> <<>>]),
        Raised("generation error", <<>>)}
  ELSE CountedRuns("content_idea", c.idea_count, "individual_ideas")

\* execute_generate_scripts, batch mode: the success rs become the
\* scripts list and their file paths are appended to generated_files.
AdoptScripts(rs) ==
  [Returned(ItemFiles(Successes(rs)), {},
            [type |-> "scripts", count |-> Len(Successes(rs)),
             items |-> Successes(rs)])
     EXCEPT !.batch = [called |-> TRUE, results |-> rs]]

\* execute_generate_scripts
GenerateScriptsRuns(c) ==
  IF ~c.has_input_vars THEN {NoInputVars}
  ELSE IF c.batch_file # "absent"
  THEN BatchRuns(c, {AdoptScripts(rs) : rs \in BatchReturns(c.batch)})
  ELSE CountedRuns("video_script", c.script_count, "scripts")

\* The JSON files QualityControl.batch_evaluate_scripts and
\* MetadataGenerator.batch_generate_metadata find under script_dir (the
\* output directory); metadata files are written to generated-metadata/.
ScriptDirFiles(files) == {f \in files : f[1] # "metadata"}

\* execute_quality_check. batch_evaluate_scripts divides by the number of
\* evaluated files once any file was found: with files present and none
\* evaluated it raises ZeroDivisionError.
QualityCheckRuns(c, files) ==
  IF ~c.has_input_vars THEN {NoInputVars}
  ELSE {[Returned(<<File("quality_report", 0)>>, {},
                  [type |-> "quality", count |-> Cardinality(ScriptDirFiles(files)),
                   items |-> <<>>])
           EXCEPT !.quality = IF ScriptDirFiles(files) = {} THEN "dir_error"
                              ELSE "report"],
        Raised("generation error", <<>>)}
       \cup (IF ScriptDirFiles(files) = {} THEN {}
             ELSE {Raised("division by zero", <<>>)})

\* execute_generate_metadata: one metadata file for each script file that
\* batch_generate_metadata could load (it skips the others); the handler
\* then reads every metadata file back, assigns metadata_results and
\* extends generated_files.
GenerateMetadataRuns(c, files) ==
  IF ~c.has_input_vars THEN {NoInputVars}
  ELSE {[Returned([j \in 1..k |-> File("metadata", j)], {},
                  [type |-> "metadata", count |-> k, items |-> <<>>])
           EXCEPT !.sets_md = TRUE,
                  !.metadata = [j \in 1..k |-> File("metadata", j)]] :
          k \in 0..Cardinality(ScriptDirFiles(files))}
       \cup {Ended("error", "generation error", <<>>,
                   {File("metadata", j) : j \in 1..k}, EmptyResult) :
               k \in 1..Cardinality(ScriptDirFiles(files))}

\* Mutant: a returned list with an error result makes the handler raise.
AdoptBatchUnlessError(rs) ==
  IF Successes(rs) = rs
  THEN [Returned(<<File("batch_processing_report", 0)>>,
                 Range(ItemFiles(Successes(rs))),
                 [type |-> "batch_processing", count |-> Len(rs),
                  items |-> rs])
          EXCEPT !.batch = [called |-> TRUE, results |-> rs]]
  ELSE [Raised("Batch had failed items", <<>>)
          EXCEPT !.batch = [called |-> TRUE, results |-> rs],
                 !.unlisted = Range(ItemFiles(Successes(rs)))]

\* execute_batch_process after process_batch returned: the report is
\* written and its path appended; the item files are on disk only.
AdoptBatch(rs) ==
  [Returned(<<File("batch_processing_report", 0)>>,
            Range(ItemFiles(Successes(rs))),
            [type |-> "batch_processing", count |-> Len(rs),
             items |-> rs])
     EXCEPT !.batch = [called |-> TRUE, results |-> rs]]

\* execute_batch_process
BatchProcessRuns(c) ==
  IF ~c.has_input_vars THEN {NoInputVars}
  ELSE IF c.batch_file = "absent" THEN {Raised("KeyError: 'batch_file'", <<>>)}
  ELSE BatchRuns(c, {AdoptBatch(rs) : rs \in BatchReturns(c.batch)})

\* execute_create_schedule
CreateScheduleRuns(c) ==
  IF ~c.has_input_vars THEN {NoInputVars}
  ELSE {Returned(<<File("content_schedule", 0)>>, {},
                 [type |-> "schedule", count |-> 7, items |-> <<>>]),
        Raised("generation error", <<>>)}

\* The if/elif chain of execute_workflow: the handler of `step`.
HandlerRuns(step, c, files) ==
  CASE step = "generate_ideas" -> GenerateIdeasRuns(c)
    [] step = "generate_scripts" -> GenerateScriptsRuns(c)
    [] step = "quality_check" -> QualityCheckRuns(c, files)
    [] step = "generate_metadata" -> GenerateMetadataRuns(c, files)
    [] step = "batch_process" -> BatchProcessRuns(c)
    [] step = "create_schedule" -> CreateScheduleRuns(c)

(* --------------------------- WorkflowManager --------------------------- *)
\* self.workflow_state as __init__ builds it; step_results[s] stands for
\* the key "<s>_results" (EmptyResult: the key is not there).
InitialWorkflowState ==
  [start_time |-> None, end_time |-> None, completed_steps |-> <<>>,
   failed_steps |-> <<>>, generated_files |-> <<>>, quality_results |-> "",
   metadata_results |-> <<>>, step_results |-> [s \in Steps |-> EmptyResult]]

\* self.workflow_state["start_time"] = datetime.now()
StartRun(ws, time) == [ws EXCEPT !.start_time = time]

\* Mutant: the steps are taken from the end of the list.
StepAtReversed(steps, i) == steps[Len(steps) + 1 - i]

\* for step in workflow_config.steps: the step of the i-th iteration
StepAt(steps, i) == steps[i]

\* Mutant: what a handler that raised had appended is taken back.
ApplyHandlerRollingBack(ws, run) ==
  [ws EXCEPT !.generated_files =
               IF run.outcome = "error" THEN @ ELSE @ \o run.files,
             !.quality_results = IF run.quality = "" THEN @ ELSE run.quality,
             !.metadata_results = IF run.sets_md THEN run.metadata ELSE @]

\* What a handler call did to self.workflow_state before it ended.
ApplyHandler(ws, run) ==
  [ws EXCEPT !.generated_files = @ \o run.files,
             !.quality_results = IF run.quality = "" THEN @ ELSE run.quality,
             !.metadata_results = IF run.sets_md THEN run.metadata ELSE @]

\* self.workflow_state["completed_steps"].append(step.value)
RecordCompleted(ws, step) ==
  [ws EXCEPT !.completed_steps = Append(@, step)]

\* Mutant: a failed step is recorded as completed as well.
RecordFailedAlsoCompleted(ws, step, error) ==
  [ws EXCEPT !.failed_steps = Append(@, [step |-> step, error |-> error]),
             !.completed_steps = Append(@, step)]

\* self.workflow_state["failed_steps"].append({"step": ..., "error": str(e)})
RecordFailed(ws, step, error) ==
  [ws EXCEPT !.failed_steps = Append(@, [step |-> step, error |-> error])]

\* Mutant: a failure is raised whatever the flag.
AfterFailureAlwaysRaises(continue_on_error) == "abort"

\* Mutant: a failure never ends the loop.
AfterFailureAlwaysContinues(continue_on_error) == "loop"

\* if not workflow_config.continue_on_error: raise / else: continue
AfterFailure(continue_on_error) ==
  IF ~continue_on_error THEN "abort" ELSE "loop"

\* if result: self.workflow_state[f"{step.value}_results"] = result
StoreResult(ws, step, result) ==
  IF Truthy(result) THEN [ws EXCEPT !.step_results[step] = result] ELSE ws

\* self.workflow_state["end_time"] = datetime.now()
SetEndTime(ws, time) == [ws EXCEPT !.end_time = time]

\* Mutant: the end of the function is inside the loop body, so the loop is
\* left after its first iteration.
LoopDoneAfterFirst(steps, i) == i > Min(1, Len(steps))

\* The for loop has run out of steps.
LoopDone(steps, i) == i > Len(steps)

CurrentStep == StepAt(config.steps, idx)

\* The files a handler call left on disk.
Written(run) == Range(run.files) \cup run.unlisted

WfInit ==
  /\ pc = "idle"
  /\ config = NoConfig
  /\ idx = 1
  /\ workflow_state = InitialWorkflowState
  /\ disk = {}
  /\ clock = 1
  /\ runs = 0
  /\ invoked = <<>>
  /\ finished = <<>>
  /\ end_writes = 0
  /\ batch_returned = NotCalled

\* execute_workflow(workflow_config) up to the first loop iteration
Call(c) ==
  /\ config' = c
  /\ workflow_state' = StartRun(workflow_state, clock)
  /\ clock' = clock + 1
  /\ idx' = 1
  /\ pc' = "loop"
  /\ runs' = runs + 1
  /\ invoked' = <<>>
  /\ finished' = <<>>
  /\ end_writes' = 0
  /\ batch_returned' = NotCalled
  /\ UNCHANGED <<disk, bvars, rvars, mvars>>

\* execute_workflow called with any WorkflowConfig within the bounds.
CallAny ==
  \E steps \in StepSeqs, coe \in BOOLEAN, hv \in BOOLEAN :
    \E wp \in ParamValues(hv /\ Uses(steps, "generate_ideas"), BOOLEAN, FALSE),
       bf \in ParamValues(hv /\ ReadsBatchFile(steps), BatchFileKinds, "absent") :
      \E ic \in ParamValues(hv /\ Uses(steps, "generate_ideas") /\ ~wp,
                            0..MaxCount, 0),
         sc \in ParamValues(hv /\ Uses(steps, "generate_scripts") /\ bf = "absent",
                            0..MaxCount, 0),
         bc \in ParamValues(bf = "valid", BatchContents, NoBatch) :
        Call(MakeConfig(steps, coe, hv, wp, ic, sc, bf, bc))

\* The call the program makes on the manager it has just constructed.
ExecuteWorkflow ==
  /\ pc = "idle"
  /\ CallAny

\* A further call on the same manager, after the previous one ended: the
\* caller runs the same WorkflowConfig again.
ExecuteWorkflowAgain ==
  /\ pc \in {"returned", "raised"}
  /\ runs < MaxRuns
  /\ Call(config)

\* The loop takes its next step and calls the step's handler.
Dispatch ==
  /\ pc = "loop"
  /\ ~LoopDone(config.steps, idx)
  /\ pc' = "handler"
  /\ invoked' = Append(invoked, CurrentStep)
  /\ batch_returned' = NotCalled
  /\ UNCHANGED <<config, idx, workflow_state, disk, clock, runs, finished,
                 end_writes, bvars, rvars, mvars>>

\* The handler returns: completed_steps, then "Store results".
HandlerReturns ==
  /\ pc = "handler"
  /\ \E run \in HandlerRuns(CurrentStep, config, disk) :
       /\ run.outcome = "ok"
       /\ workflow_state' =
            StoreResult(RecordCompleted(ApplyHandler(workflow_state, run),
                                        CurrentStep),
                        CurrentStep, run.result)
       /\ disk' = disk \cup Written(run)
       /\ batch_returned' = run.batch
  /\ finished' = Append(finished, "ok")
  /\ idx' = idx + 1
  /\ pc' = "loop"
  /\ UNCHANGED <<config, clock, runs, invoked, end_writes, bvars, rvars, mvars>>

\* The handler raises an Exception: the inner except clause.
HandlerRaises ==
  /\ pc = "handler"
  /\ \E run \in HandlerRuns(CurrentStep, config, disk) :
       /\ run.outcome = "error"
       /\ workflow_state' =
            RecordFailed(ApplyHandler(workflow_state, run), CurrentStep,
                         run.error)
       /\ disk' = disk \cup Written(run)
       /\ batch_returned' = run.batch
  /\ finished' = Append(finished, "error")
  /\ pc' = AfterFailure(config.continue_on_error)
  /\ idx' = IF pc' = "loop" THEN idx + 1 ELSE idx
  /\ UNCHANGED <<config, clock, runs, invoked, end_writes, bvars, rvars, mvars>>

\* The handler calls sys.exit(1): SystemExit is no Exception, so neither
\* except clause of execute_workflow (nor main's) catches it.
HandlerExits ==
  /\ pc = "handler"
  /\ \E run \in HandlerRuns(CurrentStep, config, disk) : run.outcome = "exit"
  /\ finished' = Append(finished, "exit")
  /\ pc' = "exited"
  /\ UNCHANGED <<config, idx, workflow_state, disk, clock, runs, invoked,
                 end_writes, batch_returned, bvars, rvars, mvars>>

\* After the last step: end_time, return self.workflow_state
Complete ==
  /\ pc = "loop"
  /\ LoopDone(config.steps, idx)
  /\ workflow_state' = SetEndTime(workflow_state, clock)
  /\ clock' = clock + 1
  /\ end_writes' = end_writes + 1
  /\ pc' = "returned"
  /\ UNCHANGED <<config, idx, disk, runs, invoked, finished, batch_returned,
                 bvars, rvars, mvars>>

\* The outer except clause: end_time, raise
Abort ==
  /\ pc = "abort"
  /\ workflow_state' = SetEndTime(workflow_state, clock)
  /\ clock' = clock + 1
  /\ end_writes' = end_writes + 1
  /\ pc' = "raised"
  /\ UNCHANGED <<config, idx, disk, runs, invoked, finished, batch_returned,
                 bvars, rvars, mvars>>

WfNext ==
  \/ ExecuteWorkflow
  \/ Dispatch
  \/ HandlerReturns
  \/ HandlerRaises
  \/ HandlerExits
  \/ Complete
  \/ Abort

(* ---------------------------- BatchProcessor --------------------------- *)
\* batch_config["items"]: item i of n (its index in the list is i - 1)
Items(n) == [i \in 1..n |-> [title |-> i]]

\* batch_config.get("max_workers", 4): the default
DefaultMaxWorkers == 4

\* The batch configurations process_batch is called with; given_workers
\* tells whether the key max_workers is there (max_workers is 0 if not).
BatchConfigs ==
  {[shape |-> s, items |-> <<>>, given_workers |-> TRUE, max_workers |-> 1,
    continue_on_error |-> TRUE] :
      s \in {"no_items", "empty_items"}}
  \cup {[shape |-> s, items |-> Items(n), given_workers |-> TRUE,
         max_workers |-> w, continue_on_error |-> c] :
      s \in {"bad_type", "ok"}, n \in 1..MaxBatchItems, w \in 1..MaxWorkers,
      c \in BOOLEAN}
  \cup {[shape |-> "ok", items |-> Items(n), given_workers |-> FALSE,
         max_workers |-> 0, continue_on_error |-> c] :
      n \in 1..MaxBatchItems, c \in BOOLEAN}

NoBatchConfig ==
  [shape |-> "no_items", items |-> <<>>, given_workers |-> TRUE,
   max_workers |-> 1, continue_on_error |-> TRUE]

\* max_workers = batch_config.get("max_workers", 4)
MaxWorkersOf(bc) ==
  IF bc.given_workers THEN bc.max_workers ELSE DefaultMaxWorkers

NoFile == File("", 0)

\* Mutant: the generated name has the timestamp only.
GeneratedNameByTime(i, time) == <<"script", 0, time>>

\* f"script_{index + 1}_{timestamp}.json" (idea_... for an idea), the name
\* of an item that gives no filename; i is index + 1 and the timestamp is
\* the clock read to the second.
GeneratedName(i, time) == <<"script", i, time>>

NoResult ==
  [status |-> "", index |-> 0, item |-> [title |-> 0], filename |-> NoFile,
   filepath |-> NoFile, timestamp |-> None, message |-> ""]

\* The result dict of process_single_script / process_single_idea when the
\* try block runs to its end.
SuccessResult(item, index, time) ==
  [status |-> "success", index |-> index, item |-> item,
   filename |-> GeneratedName(index, time),
   filepath |-> ItemFile(index), timestamp |-> time,
   message |-> "generated successfully"]

\* The error_result dict their except clause builds.
ErrorResult(item, index, time) ==
  [status |-> "error", index |-> index, item |-> item, filename |-> NoFile,
   filepath |-> NoFile, timestamp |-> time,
   message |-> "Error processing item"]

\* Mutant: the configuration is not validated.
ValidationSkipped(bc) == ""

\* What process_batch raises before any item is submitted ("" : nothing).
ValidationError(bc) ==
  CASE bc.shape = "no_items" -> "Batch configuration must contain 'items' key"
    [] bc.shape = "empty_items" ->
         "Batch configuration must contain at least one item"
    [] bc.shape = "bad_type" -> "Unknown process type"
    [] OTHER -> ""

ItemIds == 1..MaxBatchItems

Running == {i \in ItemIds : future[i] = "running"}

Pending == {i \in ItemIds : future[i] = "pending"}

\* The executor's work queue is first in, first out: the next item a free
\* worker takes is the first submitted one that neither started nor was
\* cancelled.
NextQueued(i) == i \in Pending /\ \A j \in Pending : i <= j

\* Mutant: only success results are appended.
CollectedUnlessError(list, result) ==
  IF result.status = "success" THEN Append(list, result) ELSE list

\* Mutant: the pool starts a thread for every queued item.
WorkerFreeAlways == TRUE

\* ThreadPoolExecutor(max_workers): a queued item is taken only by one of
\* at most max_workers threads, each of which runs one item at a time.
WorkerFree == Cardinality(Running) < MaxWorkersOf(batch_config)

\* Mutant: an append made while a worker is running is lost.
CollectedUnlessBusy(list, result) ==
  IF Running # {} THEN list ELSE Append(list, result)

\* self.results.append(result)
Collected(list, result) == Append(list, result)

\* Mutant: no result ends the batch.
StopsBatchNever(result, continue_on_error) == FALSE

\* Mutant: the first error result ends the batch whatever the flag.
StopsBatchAlways(result, continue_on_error) == result.status # "success"

\* if result["status"] != "success" and not continue_on_error: cancel, break
StopsBatch(result, continue_on_error) ==
  result.status # "success" /\ ~continue_on_error

\* Mutant: cancel() leaves the future as it is.
CancelledNothing(fut, i) == fut

\* f.cancel() on the future of item i: only a pending future is cancelled,
\* a running or finished one is left alone.
Cancelled(fut, i) ==
  [fut EXCEPT ![i] = IF @ = "pending" THEN "cancelled" ELSE @]

BInit ==
  /\ bpc = "idle"
  /\ batch_config = NoBatchConfig
  /\ future = [i \in ItemIds |-> "none"]
  /\ future_result = [i \in ItemIds |-> NoResult]
  /\ yielded = {}
  /\ results = <<>>
  /\ now = 1
  /\ cancel_next = 1
  /\ failing = {}
  /\ started = {}

\* process_batch(batch_config) up to the end of the submit loop
ProcessBatch ==
  /\ bpc = "idle"
  /\ \E bc \in BatchConfigs :
       /\ batch_config' = bc
       /\ failing' \in SUBSET (1..Len(bc.items))
       /\ IF ValidationError(bc) # ""
          THEN /\ bpc' = "raised"
               /\ UNCHANGED future
          ELSE /\ bpc' = "collect"
               /\ future' = [i \in ItemIds |->
                               IF i <= Len(bc.items) THEN "pending" ELSE "none"]
  /\ results' = <<>>
  /\ UNCHANGED <<future_result, yielded, now, cancel_next, started, wfvars, rvars, mvars>>

\* A free worker thread takes the next queued item and enters its
\* processor function.
WorkerStart(i) ==
  /\ bpc \in {"collect", "cancel", "shutdown"}
  /\ NextQueued(i)
  /\ WorkerFree
  /\ future' = [future EXCEPT ![i] = "running"]
  /\ started' = started \cup {i}
  /\ UNCHANGED <<bpc, batch_config, future_result, yielded, results, now,
                 cancel_next, failing, wfvars, rvars, mvars>>

\* What the processor function returns for item i at time `time`: the
\* try block runs to its end, or something in it raised and was caught.
Processed(i, time) ==
  IF i \in failing THEN ErrorResult(batch_config.items[i], i, time)
  ELSE SuccessResult(batch_config.items[i], i, time)

\* The processor function of item i returns.
WorkerFinish(i) ==
  /\ future[i] = "running"
  /\ future_result' = [future_result EXCEPT ![i] = Processed(i, now)]
  /\ future' = [future EXCEPT ![i] = "finished"]
  /\ UNCHANGED <<bpc, batch_config, yielded, results, now, cancel_next,
                 failing, started, wfvars, rvars, mvars>>

\* One iteration of `for future in as_completed(future_to_index)`, up to
\* the cancel loop when the result stops the batch.
Collect(i) ==
  /\ bpc = "collect"
  /\ future[i] = "finished"
  /\ i \notin yielded
  /\ yielded' = yielded \cup {i}
  /\ results' = Collected(results, future_result[i])
  /\ bpc' = IF StopsBatch(future_result[i], batch_config.continue_on_error)
            THEN "cancel"
            ELSE IF yielded' = 1..Len(batch_config.items)
            THEN "shutdown" ELSE "collect"
  /\ cancel_next' = 1
  /\ UNCHANGED <<batch_config, future, future_result, now, failing, started,
                 wfvars, rvars, mvars>>

\* One iteration of `for f in future_to_index: f.cancel()`, the futures
\* taken in submission order; after the last one, break. The worker
\* threads keep running between two iterations.
CancelNext ==
  /\ bpc = "cancel"
  /\ future' = Cancelled(future, cancel_next)
  /\ cancel_next' = cancel_next + 1
  /\ bpc' = IF cancel_next = Len(batch_config.items)
            THEN "shutdown" ELSE "cancel"
  /\ UNCHANGED <<batch_config, future_result, yielded, results, now, failing,
                 started, wfvars, rvars, mvars>>

\* Mutant: the executor is shut down without waiting.
AllWorkDoneAtOnce == TRUE

\* What executor.shutdown(wait=True) waits for: every worker thread has
\* ended, which it does when no item is running and none is queued.
AllWorkDone == Running = {} /\ Pending = {}

\* Leaving the with block: executor.shutdown(wait=True), return self.results
Shutdown ==
  /\ bpc = "shutdown"
  /\ AllWorkDone
  /\ bpc' = "returned"
  /\ UNCHANGED <<batch_config, future, future_result, yielded, results, now,
                 cancel_next, failing, started, wfvars, rvars, mvars>>

\* The wall clock advances.
Tick ==
  /\ bpc \in {"collect", "cancel", "shutdown"}
  /\ now < MaxTime
  /\ now' = now + 1
  /\ UNCHANGED <<bpc, batch_config, future, future_result, yielded, results,
                 cancel_next, failing, started, wfvars, rvars, mvars>>

BNext ==
  \/ ProcessBatch
  \/ \E i \in ItemIds : WorkerStart(i)
  \/ \E i \in ItemIds : WorkerFinish(i)
  \/ \E i \in ItemIds : Collect(i)
  \/ CancelNext
  \/ Shutdown
  \/ Tick

(* ----------------------- generate_batch_report ------------------------ *)
RECURSIVE GCD(_, _)
GCD(a, b) == IF b = 0 THEN a ELSE GCD(b, a % b)

\* A number that need not be whole: <<numerator, denominator>> in lowest
\* terms. Python computes in binary floating point, which rounds the
\* quotient and the product to 53 bits.
Number(n, d) == <<n \div GCD(n, d), d \div GCD(n, d)>>

\* a / b
Quotient(a, b) == Number(a, b)

\* x * k
Times(x, k) == Number(x[1] * k, x[2])

\* The result dicts generate_batch_report reads: status, filename, message.
\* A success result of process_single_script names its file; the last one
\* is a success result made elsewhere, without a filename.
ReportResults ==
  {[status |-> "success", filename |-> File("batch_item", k),
    message |-> "generated successfully"] : k \in 1..2}
  \cup {[status |-> "error", filename |-> NoFile, message |-> m] :
          m \in {"Error processing item: A", "Error processing item: B"}}
  \cup {[status |-> "success", filename |-> NoFile,
          message |-> "generated successfully"]}

ResultLists == UNION {[1..k -> ReportResults] : k \in 0..MaxResults}

\* list(set(xs)): the distinct entries of xs in some order
ListsOfSet(xs) ==
  {order \in [1..Cardinality(Range(xs)) -> Range(xs)] :
     \A a, b \in DOMAIN order : a # b => order[a] # order[b]}

Messages(rs) == [k \in 1..Len(rs) |-> rs[k].message]

Filenames(rs) == [k \in 1..Len(rs) |-> rs[k].filename]

\* Mutant: total_items counts the successful results only.
TotalItemsSuccessful(rs) == Len(SelectSeq(rs, LAMBDA r : r.status = "success"))

\* total_items = len(results)
TotalItems(rs) == Len(rs)

\* Mutant: the messages are listed as they come.
ErrorMessagesAsTheyCome(failed) == {Messages(failed)}

\* list(set([r["message"] for r in failed_results]))
ErrorMessages(failed) == ListsOfSet(Messages(failed))

\* The reports generate_batch_report(rs) can return (one for each order
\* in which the set of messages is listed).
BatchReports(rs) ==
  LET total_items == TotalItems(rs)
      successful_results == SelectSeq(rs, LAMBDA r : r.status = "success")
      failed_results == SelectSeq(rs, LAMBDA r : r.status = "error")
      successful_items == Len(successful_results)
  IN {[total_items |-> total_items,
       successful_items |-> successful_items,
       failed_items |-> total_items - successful_items,
       success_rate |-> IF total_items > 0
                        THEN Times(Quotient(successful_items, total_items), 100)
                        ELSE Number(0, 1),
       successful_results |-> successful_results,
       failed_results |-> failed_results,
       file_list |-> Filenames(SelectSeq(successful_results,
                                         LAMBDA r : r.filename # NoFile)),
       error_count |-> Len(failed_results),
       error_messages |-> messages] :
        messages \in ErrorMessages(failed_results)}

\* The value of `report` before generate_batch_report has returned.
NoReport ==
  [total_items |-> -1, successful_items |-> 0, failed_items |-> 0,
   success_rate |-> Number(0, 1), successful_results |-> <<>>,
   failed_results |-> <<>>, file_list |-> <<>>, error_count |-> 0,
   error_messages |-> <<>>]

\* generate_batch_report(results)
GenerateBatchReport ==
  /\ report' \in BatchReports(report_input)
  /\ UNCHANGED <<report_input, weekly_plan, schedule, schedule_calls, wfvars,
                 bvars, mvars>>

(* --------------------- create_publishing_schedule --------------------- *)
\* the keys of content_schedule, in the order generate_weekly_content_plan
\* inserts them
DayNames ==
  <<"monday", "tuesday", "wednesday", "thursday", "friday", "saturday",
    "sunday">>

DayIndex(day) == CHOOSE k \in 1..7 : DayNames[k] = day

\* publish_times.get(day, "14:00")
PublishTime(day) ==
  CASE day = "monday" -> "09:00"
    [] day = "tuesday" -> "10:00"
    [] day = "wednesday" -> "14:00"
    [] day = "thursday" -> "11:00"
    [] day = "friday" -> "15:00"
    [] day = "saturday" -> "10:00"
    [] day = "sunday" -> "16:00"
    [] OTHER -> "14:00"

\* A date string "%Y-%m-%d" is <<year, month, day>>.
NoDate == <<0, 0, 0>>

IsLeap(y) == (y % 4 = 0 /\ y % 100 # 0) \/ y % 400 = 0

DaysInMonth(y, m) ==
  IF m = 2 THEN (IF IsLeap(y) THEN 29 ELSE 28)
  ELSE IF m \in {4, 6, 9, 11} THEN 30 ELSE 31

\* the days before 1 January of year y
DaysBeforeYear(y) ==
  (y - 1) * 365 + (y - 1) \div 4 - (y - 1) \div 100 + (y - 1) \div 400

RECURSIVE DaysBeforeMonth(_, _)
DaysBeforeMonth(y, m) ==
  IF m = 1 THEN 0 ELSE DaysBeforeMonth(y, m - 1) + DaysInMonth(y, m - 1)

\* datetime.strptime(date, "%Y-%m-%d"), as the day number datetime
\* arithmetic works on (1 January of year 1 is day 1)
ToOrdinal(date) ==
  DaysBeforeYear(date[1]) + DaysBeforeMonth(date[1], date[2]) + date[3]

\* strftime("%Y-%m-%d") of the day with number n
FromOrdinal(n) ==
  LET y == CHOOSE yy \in (n \div 366)..(n \div 365 + 1) :
             DaysBeforeYear(yy) < n /\ n <= DaysBeforeYear(yy + 1)
      r == n - DaysBeforeYear(y)
      m == CHOOSE mm \in 1..12 :
             /\ DaysBeforeMonth(y, mm) < r
             /\ r <= DaysBeforeMonth(y, mm) + DaysInMonth(y, mm)
  IN <<y, m, r - DaysBeforeMonth(y, m)>>

\* (strptime(date) + timedelta(days=k)).strftime(...)
PlusDays(date, k) == FromOrdinal(ToOrdinal(date) + k)

\* Mutant: the days are taken off the day of the month.
MinusDaysInMonth(date, k) == <<date[1], date[2], date[3] - k>>

\* (strptime(date) - timedelta(days=k)).strftime(...)
MinusDays(date, k) == FromOrdinal(ToOrdinal(date) - k)

\* (strptime(a) - strptime(b)).days
DaysBetween(a, b) == ToOrdinal(a) - ToOrdinal(b)

\* Mutant: no reminder on the day itself.
ReminderDatesBefore(publish_date) ==
  <<MinusDays(publish_date, 3), MinusDays(publish_date, 1)>>

\* reminder_dates: 3 days before, 1 day before, day of
ReminderDates(publish_date) ==
  <<MinusDays(publish_date, 3), MinusDays(publish_date, 1), publish_date>>

\* The reminders appended for one day entry.
RemindersOf(content) ==
  LET dates == ReminderDates(content.date)
  IN [k \in 1..Len(dates) |->
        [date |-> dates[k], type |-> "publishing_reminder",
         content |-> content.suggested_title,
         days_until |-> DaysBetween(content.date, dates[k])]]

\* the keys of a content_schedule in insertion order
RECURSIVE KeysInOrder(_, _)
KeysInOrder(content_schedule, k) ==
  IF k > 7 THEN <<>>
  ELSE (IF DayNames[k] \in DOMAIN content_schedule
        THEN <<DayNames[k]>> ELSE <<>>)
       \o KeysInOrder(content_schedule, k + 1)

RECURSIVE AllReminders(_, _)
AllReminders(content_schedule, keys) ==
  IF keys = <<>> THEN <<>>
  ELSE RemindersOf(content_schedule[Head(keys)])
       \o AllReminders(content_schedule, Tail(keys))

\* Mutant: the schedule is kept in the manager and each call adds its
\* reminders to those of the call before.
PublishingScheduleKept(plan) ==
  LET cs == plan.content_schedule
  IN [week_start |-> plan.week_start,
      week_end |-> plan.week_end,
      publishing_schedule |->
        [day \in DOMAIN cs |->
           [date |-> cs[day].date, time |-> PublishTime(day),
            title |-> cs[day].suggested_title, status |-> "scheduled"]],
      content_calendar |-> schedule.content_calendar,
      reminders |-> schedule.reminders \o AllReminders(cs, KeysInOrder(cs, 1))]

\* create_publishing_schedule(weekly_plan)
PublishingSchedule(plan) ==
  LET cs == plan.content_schedule
  IN [week_start |-> plan.week_start,
      week_end |-> plan.week_end,
      publishing_schedule |->
        [day \in DOMAIN cs |->
           [date |-> cs[day].date, time |-> PublishTime(day),
            title |-> cs[day].suggested_title, status |-> "scheduled"]],
      content_calendar |->
        [date \in {cs[day].date : day \in DOMAIN cs} |->
           LET day == CHOOSE d \in DOMAIN cs :
                        /\ cs[d].date = date
                        /\ \A e \in DOMAIN cs :
                             cs[e].date = date => DayIndex(e) <= DayIndex(d)
           IN [day |-> day, time |-> PublishTime(day),
               title |-> cs[day].suggested_title]],
      reminders |-> AllReminders(cs, KeysInOrder(cs, 1))]

\* The dates of the years explored.
Dates ==
  {date \in (2023..(2023 + MaxYears)) \X (1..12) \X (1..31) :
     date[3] <= DaysInMonth(date[1], date[2])}

\* _suggest_publishing_time(day): the time the plan gives for a day
SuggestPublishingTime(day) ==
  CASE day = "monday" -> "9:00 AM"
    [] day = "tuesday" -> "10:00 AM"
    [] day = "wednesday" -> "2:00 PM"
    [] day = "thursday" -> "11:00 AM"
    [] day = "friday" -> "3:00 PM"
    [] day = "saturday" -> "10:00 AM"
    [] day = "sunday" -> "4:00 PM"
    [] OTHER -> "2:00 PM"

\* A weekly plan as generate_weekly_content_plan builds it from start,
\* with an entry for the days of `days` only; the titles are made up by
\* the idea generator, here one per day.
WeeklyPlan(start, days) ==
  [week_start |-> start,
   week_end |-> PlusDays(start, 6),
   content_schedule |->
     [day \in days |->
        [date |-> PlusDays(start, DayIndex(day) - 1),
         suggested_title |-> day,
         publishing_time |-> SuggestPublishingTime(day)]]]

\* A plan whose entry for `day` the caller has given another time.
WithPublishingTime(plan, day, time) ==
  [plan EXCEPT !.content_schedule[day].publishing_time = time]

\* the day sets explored: none, each single day, and the first days of
\* the week up to the whole week
DaySets ==
  {{DayNames[k] : k \in 1..b} : b \in 0..7}
  \cup {{DayNames[k]} : k \in 1..7}

\* The plans of the generator, and Monday's plan moved to the evening.
WeeklyPlans ==
  {WeeklyPlan(start, days) : start \in Dates, days \in DaySets}
  \cup {WithPublishingTime(WeeklyPlan(start, {"monday"}), "monday", "18:00") :
          start \in Dates}

\* The value of `weekly_plan` when no schedule is asked for.
NoPlan ==
  [week_start |-> NoDate, week_end |-> NoDate, content_schedule |-> <<>>]

\* The value of `schedule` before create_publishing_schedule has returned.
NoSchedule ==
  [week_start |-> NoDate, week_end |-> NoDate, publishing_schedule |-> <<>>,
   content_calendar |-> <<>>, reminders |-> <<>>]

\* Neither a report nor a schedule has been asked for.
RInit ==
  /\ report_input = <<>>
  /\ report = NoReport
  /\ weekly_plan = NoPlan
  /\ schedule = NoSchedule
  /\ schedule_calls = 0

\* create_publishing_schedule(weekly_plan)
CreatePublishingSchedule ==
  /\ schedule_calls < MaxCalls
  /\ schedule' = PublishingSchedule(weekly_plan)
  /\ schedule_calls' = schedule_calls + 1
  /\ UNCHANGED <<report_input, report, weekly_plan, wfvars, bvars, mvars>>

(* -------------------------------- main --------------------------------- *)
\* exit_status while the process has not ended
NotEnded == -1

\* parse_args() of a command line without options: every store_true flag
\* is False, the counts have their defaults, there is no batch file.
DefaultArgs ==
  [generate_ideas |-> FALSE, generate_scripts |-> FALSE,
   quality_check |-> FALSE, generate_metadata |-> FALSE,
   batch_process |-> FALSE, create_schedule |-> FALSE,
   continue_on_error |-> FALSE, report |-> FALSE, weekly_plan |-> FALSE,
   idea_count |-> 5, script_count |-> 3, batch_file |-> "absent"]

\* The namespaces of the command lines made of the step flags,
\* --continue-on-error and --report.
Namespaces ==
  {[DefaultArgs EXCEPT !.generate_ideas = f[1], !.generate_scripts = f[2],
                       !.quality_check = f[3], !.generate_metadata = f[4],
                       !.batch_process = f[5], !.create_schedule = f[6],
                       !.continue_on_error = coe, !.report = r] :
     f \in [1..6 -> BOOLEAN], coe \in BOOLEAN, r \in BOOLEAN}

\* create_workflow_config: the steps list, in the fixed order of the if
\* chain; without any step flag the default workflow.
StepsOfArgs(a) ==
  LET chosen ==
        (IF a.generate_ideas THEN <<"generate_ideas">> ELSE <<>>)
        \o (IF a.generate_scripts THEN <<"generate_scripts">> ELSE <<>>)
        \o (IF a.quality_check THEN <<"quality_check">> ELSE <<>>)
        \o (IF a.generate_metadata THEN <<"generate_metadata">> ELSE <<>>)
        \o (IF a.batch_process THEN <<"batch_process">> ELSE <<>>)
        \o (IF a.create_schedule THEN <<"create_schedule">> ELSE <<>>)
  IN IF chosen = <<>>
     THEN <<"generate_ideas", "generate_scripts", "quality_check",
            "generate_metadata">>
     ELSE chosen

\* the fields the dataclass WorkflowConfig declares
DeclaredFields ==
  {"steps", "input_params", "output_dir", "continue_on_error", "log_level",
   "dry_run"}

\* the keyword arguments create_workflow_config passes to WorkflowConfig
PassedFields ==
  {"steps", "input_vars", "output_dir", "continue_on_error", "log_level",
   "dry_run"}

\* The generated __init__ takes the declared fields and nothing else:
\* any other keyword is a TypeError.
ConstructorAccepts(passed) == passed = DeclaredFields

\* generate_workflow_report(workflow_state); the steps are counted, the
\* results stored under a key "<step>_results" are copied.
WorkflowReport(ws) ==
  [start_time |-> ws.start_time,
   end_time |-> ws.end_time,
   duration_seconds |->
     IF ws.start_time # None /\ ws.end_time # None
     THEN ws.end_time - ws.start_time ELSE None,
   completed_steps |-> Len(ws.completed_steps),
   failed_steps |-> Len(ws.failed_steps),
   total_generated_files |-> Len(ws.generated_files),
   step_results |->
     [s \in {x \in Steps : ws.step_results[x] # EmptyResult} |->
        ws.step_results[s]],
   file_list |-> ws.generated_files,
   quality_summary |-> IF ws.quality_results = "report" THEN "batch_summary"
                       ELSE "",
   total_metadata_files |-> Len(ws.metadata_results),
   success |-> Len(ws.failed_steps) = 0]

\* The value of `wf_report` while no report has been generated.
NoWfReport ==
  [WorkflowReport(InitialWorkflowState) EXCEPT !.completed_steps = -1]

\* No workflow command is running.
MInit ==
  /\ args = DefaultArgs
  /\ main_pc = "none"
  /\ exit_status = NotEnded
  /\ wf_report = NoWfReport

\* what gemini-config.json is when WorkflowManager() reads it
ConfigFileKinds == {"valid", "missing", "invalid"}

\* args = parser.parse_args()
MainParses ==
  /\ main_pc = "start"
  /\ args' \in Namespaces
  /\ main_pc' = "construct"
  /\ UNCHANGED <<exit_status, wf_report, wfvars, bvars, rvars>>

\* workflow_manager = WorkflowManager(): _load_config calls sys.exit(1)
\* when the configuration file is missing or is not valid JSON.
MainConstructs ==
  /\ main_pc = "construct"
  /\ \E kind \in ConfigFileKinds :
       IF kind = "valid"
       THEN /\ main_pc' = "configure"
            /\ UNCHANGED exit_status
       ELSE /\ main_pc' = "exited"
            /\ exit_status' = 1
  /\ UNCHANGED <<args, wf_report, wfvars, bvars, rvars>>

\* workflow_config = workflow_manager.create_workflow_config(args), which
\* main calls before its try block: an exception raised here is not
\* caught, and the interpreter ends the process with status 1.
CreateWorkflowConfig ==
  /\ main_pc = "configure"
  /\ IF ConstructorAccepts(PassedFields)
     THEN /\ \E bc \in ParamValues(args.batch_file = "valid", BatchContents,
                                    NoBatch) :
               config' = MakeConfig(StepsOfArgs(args), args.continue_on_error,
                                    TRUE, args.weekly_plan, args.idea_count,
                                    args.script_count, args.batch_file, bc)
          /\ main_pc' = "try"
          /\ UNCHANGED exit_status
     ELSE /\ main_pc' = "uncaught"
          /\ exit_status' = 1
          /\ UNCHANGED config
  /\ UNCHANGED <<pc, idx, workflow_state, disk, clock, runs, invoked,
                 finished, end_writes, batch_returned, args, wf_report, bvars,
                 rvars>>

MainNext ==
  \/ MainParses
  \/ MainConstructs
  \/ CreateWorkflowConfig

\* The try block after execute_workflow has returned: with --report the
\* report is generated and saved (the write can fail, which the except
\* clause turns into status 1); then main reaches its last line.
MainReports ==
  /\ main_pc = "try"
  /\ pc = "returned"
  /\ IF args.report
     THEN \E saved \in BOOLEAN :
            /\ wf_report' = WorkflowReport(workflow_state)
            /\ IF saved
               THEN /\ disk' = disk \cup {File("workflow_report", 0)}
                    /\ main_pc' = "ended"
                    /\ exit_status' = 0
               ELSE /\ main_pc' = "exited"
                    /\ exit_status' = 1
                    /\ UNCHANGED disk
     ELSE /\ main_pc' = "ended"
          /\ exit_status' = 0
          /\ UNCHANGED <<wf_report, disk>>
  /\ UNCHANGED <<pc, config, idx, workflow_state, clock, runs, invoked,
                 finished, end_writes, batch_returned, args, bvars, rvars>>

\* except Exception: execute_workflow has raised; "Workflow failed",
\* sys.exit(1)
MainExcept ==
  /\ main_pc = "try"
  /\ pc = "raised"
  /\ main_pc' = "exited"
  /\ exit_status' = 1
  /\ UNCHANGED <<args, wf_report, wfvars, bvars, rvars>>

\* A handler has called sys.exit(1): SystemExit passes the except clause
\* and ends the process.
MainSystemExit ==
  /\ main_pc = "try"
  /\ pc = "exited"
  /\ main_pc' = "exited"
  /\ exit_status' = 1
  /\ UNCHANGED <<args, wf_report, wfvars, bvars, rvars>>

TryNext ==
  \/ MainReports
  \/ MainExcept
  \/ MainSystemExit

(* ---------------------------- specifications --------------------------- *)
Init == WfInit /\ BInit /\ RInit /\ MInit

\* One execute_workflow call on a freshly constructed WorkflowManager, as
\* main, the GUI and the web handler make it.
Spec == Init /\ [][WfNext]_vars

\* The same manager called up to MaxRuns times.
SpecReuse == Init /\ [][WfNext \/ ExecuteWorkflowAgain]_vars

\* One process_batch call.
BatchSpec == Init /\ [][BNext]_vars

\* The workflow command: main from the command line to the end of the
\* process.
MainInit ==
  /\ WfInit
  /\ BInit
  /\ RInit
  /\ args = DefaultArgs
  /\ main_pc = "start"
  /\ exit_status = NotEnded
  /\ wf_report = NoWfReport

MainSpec == MainInit /\ [][MainNext]_vars

\* main's try block, entered with a manager and a WorkflowConfig: the call
\* of execute_workflow and what main does with its outcome, for the command
\* lines with and without --report.
TryInit ==
  /\ WfInit
  /\ BInit
  /\ RInit
  /\ args \in {[DefaultArgs EXCEPT !.report = r] : r \in BOOLEAN}
  /\ main_pc = "try"
  /\ exit_status = NotEnded
  /\ wf_report = NoWfReport

TrySpec == TryInit /\ [][WfNext \/ TryNext]_vars

\* One process_batch call in which every item handler that is entered
\* returns, a free worker thread takes the next queued item, and the
\* calling thread goes on with its loops and its with block.
BatchLiveSpec ==
  /\ Init
  /\ [][BNext]_vars
  /\ \A i \in ItemIds : WF_vars(WorkerFinish(i))
  /\ WF_vars(\E i \in ItemIds : WorkerStart(i))
  /\ WF_vars(\E i \in ItemIds : Collect(i))
  /\ WF_vars(CancelNext)
  /\ WF_vars(Shutdown)

\* generate_batch_report applied to each list of up to MaxResults results.
ReportInit ==
  /\ WfInit
  /\ BInit
  /\ MInit
  /\ report_input \in ResultLists
  /\ report = NoReport
  /\ weekly_plan = NoPlan
  /\ schedule = NoSchedule
  /\ schedule_calls = 0

ReportSpec == ReportInit /\ [][GenerateBatchReport]_vars

\* create_publishing_schedule applied to the weekly plan of each start date
\* of the years explored.
ScheduleInit ==
  /\ WfInit
  /\ BInit
  /\ MInit
  /\ report_input = <<>>
  /\ report = NoReport
  /\ weekly_plan \in WeeklyPlans
  /\ schedule = NoSchedule
  /\ schedule_calls = 0

ScheduleSpec == ScheduleInit /\ [][CreatePublishingSchedule]_vars

(* ------------------------------- claims -------------------------------- *)
CountOf(seq, v) == Cardinality({k \in 1..Len(seq) : seq[k] = v})

\* a is b with some entries left out
RECURSIVE IsSubseq(_, _)
IsSubseq(a, b) ==
  IF a = <<>> THEN TRUE
  ELSE IF b = <<>> THEN FALSE
  ELSE IF Head(a) = Head(b) THEN IsSubseq(Tail(a), Tail(b))
  ELSE IsSubseq(a, Tail(b))

FailedStepNames ==
  [k \in 1..Len(workflow_state.failed_steps) |->
     workflow_state.failed_steps[k].step]

\* C1: with continue_on_error=true, whatever handlers return or raise,
\* execute_workflow never raises to its caller; when it returns end_time is
\* set and failed_steps has one record per handler that raised.
C1_ContinueOnErrorNeverRaises ==
  config.continue_on_error =>
    /\ pc \notin {"abort", "raised"}
    /\ (pc = "returned" =>
          /\ workflow_state.end_time # None
          /\ Len(workflow_state.failed_steps) = CountOf(finished, "error"))

C1_Witness ==
  /\ config.continue_on_error
  /\ pc = "returned"
  /\ Len(workflow_state.failed_steps) >= 1
  /\ Len(workflow_state.completed_steps) >= 1

\* C2: with continue_on_error=false, once the k-th step is the first whose
\* handler raises: completed_steps is the k-1 steps before it, failed_steps
\* is the one record of step k, no handler after position k is invoked, and
\* the call raises only with end_time recorded.
C2_AbortOnFirstFailure ==
  (~config.continue_on_error /\ CountOf(finished, "error") >= 1) =>
    LET k == Len(finished) IN
      /\ finished[k] = "error"
      /\ CountOf(finished, "error") = 1
      /\ workflow_state.completed_steps = SubSeq(config.steps, 1, k - 1)
      /\ Len(workflow_state.failed_steps) = 1
      /\ workflow_state.failed_steps[1].step = config.steps[k]
      /\ invoked = SubSeq(config.steps, 1, k)
      /\ pc \in {"abort", "raised"}
      /\ (pc = "raised" => workflow_state.end_time # None)

\* The spec's scenario: [GenerateScripts, QualityCheck], the first fails.
C2_Witness ==
  /\ ~config.continue_on_error
  /\ config.steps = <<"generate_scripts", "quality_check">>
  /\ pc = "raised"
  /\ workflow_state.completed_steps = <<>>
  /\ FailedStepNames = <<"generate_scripts">>
  /\ invoked = <<"generate_scripts">>

\* C3: the handlers are invoked one at a time in the order of config.steps,
\* each only after the one before it has ended, so completed_steps and the
\* steps of failed_steps are subsequences of config.steps.
C3_SequentialInConfigOrder ==
  /\ invoked = SubSeq(config.steps, 1, Len(invoked))
  /\ Len(finished) = IF pc = "handler" THEN Len(invoked) - 1 ELSE Len(invoked)
  /\ IsSubseq(workflow_state.completed_steps, config.steps)
  /\ IsSubseq(FailedStepNames, config.steps)

C3_Witness ==
  /\ pc = "returned"
  /\ Len(workflow_state.completed_steps) = 2
  /\ workflow_state.completed_steps[1] # workflow_state.completed_steps[2]

\* What execute_workflow leaves alone once it has assigned end_time.
Outcome == <<workflow_state, invoked, finished>>

\* C4: one call assigns end_time at most once, and exactly once when it
\* returns (after the last step) or raises (upon abort); from then on no
\* step is dispatched and the workflow state does not change.
C4_EndTimeOnceThenFrozen ==
  /\ [](/\ end_writes <= 1
        /\ (pc \in {"returned", "raised"} =>
              /\ end_writes = 1
              /\ workflow_state.end_time # None)
        /\ (end_writes = 1 => pc \in {"returned", "raised"})
        /\ (pc = "returned" => Len(finished) = Len(config.steps)))
  /\ [][end_writes = 1 => Outcome' = Outcome]_vars

C4_Witness ==
  /\ pc = "raised"
  /\ end_writes = 1
  /\ workflow_state.end_time # None
  /\ Len(workflow_state.completed_steps) = 1

\* C5: when execute_workflow begins, completed_steps, failed_steps and
\* generated_files are empty, also on a second call on the same manager.
C5_StateEmptyAtStart ==
  (pc = "loop" /\ invoked = <<>>) =>
    /\ workflow_state.completed_steps = <<>>
    /\ workflow_state.failed_steps = <<>>
    /\ workflow_state.generated_files = <<>>

\* The handler call that has just ended returned.
JustReturned ==
  /\ Len(finished') = Len(finished) + 1
  /\ finished'[Len(finished')] = "ok"

\* C6: when a handler returns, its step is appended to completed_steps, a
\* result is stored under the step's name, and every file the handler wrote
\* is in generated_files.
C6_SuccessIsRecorded ==
  [][JustReturned =>
       /\ workflow_state'.completed_steps =
            Append(workflow_state.completed_steps, CurrentStep)
       /\ workflow_state'.step_results[CurrentStep] # EmptyResult
       /\ (disk' \ disk) \subseteq Range(workflow_state'.generated_files)]_vars

\* The handler call that has just ended raised an Exception.
JustRaised ==
  /\ Len(finished') = Len(finished) + 1
  /\ finished'[Len(finished')] = "error"

\* C7: a handler that raises adds one {step, error} record to failed_steps
\* and nothing to completed_steps; one that returns adds its step to
\* completed_steps and nothing to failed_steps; so the two lists together
\* have one entry per handler call that has returned or raised.
C7_OneRecordPerDispatch ==
  /\ [](/\ Len(workflow_state.completed_steps) = CountOf(finished, "ok")
        /\ Len(workflow_state.failed_steps) = CountOf(finished, "error"))
  /\ [][/\ JustRaised =>
             /\ Len(workflow_state'.failed_steps) =
                  Len(workflow_state.failed_steps) + 1
             /\ SubSeq(workflow_state'.failed_steps, 1,
                       Len(workflow_state.failed_steps)) =
                  workflow_state.failed_steps
             /\ workflow_state'.failed_steps[Len(workflow_state'.failed_steps)].step
                  = CurrentStep
             /\ workflow_state'.completed_steps = workflow_state.completed_steps
        /\ JustReturned =>
             /\ workflow_state'.completed_steps =
                  Append(workflow_state.completed_steps, CurrentStep)
             /\ workflow_state'.failed_steps = workflow_state.failed_steps]_vars

C7_Witness ==
  /\ pc = "loop"
  /\ Len(workflow_state.completed_steps) = 1
  /\ Len(workflow_state.failed_steps) = 1
  /\ finished = <<"error", "ok">>

\* The step being handled needs the batch file and cannot use it.
BatchInputUnusable ==
  \/ CurrentStep = "batch_process" /\ config.batch_file # "valid"
  \/ CurrentStep = "generate_scripts"
       /\ config.batch_file \in {"missing", "invalid"}

\* C8: a step whose batch file path is absent, or names a file that does
\* not exist or is not valid JSON, is recorded as a failed step and the
\* process goes on; with continue_on_error=true the loop goes to the next
\* step.
C8_MissingInputIsFailedStep ==
  [][(pc = "handler" /\ config.has_input_vars /\ BatchInputUnusable
        /\ pc' # "handler") =>
       /\ pc' # "exited"
       /\ workflow_state'.failed_steps # <<>>
       /\ workflow_state'.failed_steps[Len(workflow_state'.failed_steps)].step
            = CurrentStep
       /\ (config.continue_on_error => pc' = "loop" /\ idx' = idx + 1)]_vars

\* the steps of this call whose handler ended as `how`, in order
StepsEnded(how) ==
  LET ks == SelectSeq([k \in 1..Len(finished) |-> k],
                      LAMBDA k : finished[k] = how)
  IN [j \in 1..Len(ks) |-> config.steps[ks[j]]]

\* C23: completed_steps and the steps of failed_steps are determined by the
\* WorkflowConfig and the outcomes of the handler calls of the run alone, so
\* that two runs with the same config and the same outcomes end with the
\* same two lists; only start_time and end_time differ.
C23_StepListsDetermined ==
  pc \in {"returned", "raised"} =>
    /\ workflow_state.completed_steps = StepsEnded("ok")
    /\ FailedStepNames = StepsEnded("error")

\* C24: the workflow command ends with a non-zero exit status exactly when
\* a step failed and continue_on_error is false, and with status zero in
\* every other case.
C24_ExitStatusTellsAbort ==
  exit_status # NotEnded =>
    (exit_status # 0 <=>
       (workflow_state.failed_steps # <<>> /\ ~args.continue_on_error))

\* C26: when execute_generate_scripts returns, with a batch file every
\* result process_batch returned, success or error, is in the step's result
\* and the file path of every success result has been appended to
\* generated_files; without one the step's result counts script_count
\* scripts and script_count paths have been appended.
C26_ScriptsStepAdoptsBatch ==
  [][(JustReturned /\ CurrentStep = "generate_scripts") =>
       LET result == workflow_state'.step_results["generate_scripts"]
           appended == SubSeq(workflow_state'.generated_files,
                              Len(workflow_state.generated_files) + 1,
                              Len(workflow_state'.generated_files))
       IN IF config.batch_file # "absent"
          THEN /\ batch_returned'.called
               /\ Range(batch_returned'.results) \subseteq Range(result.items)
               /\ appended = ItemFiles(Successes(batch_returned'.results))
          ELSE /\ ~batch_returned'.called
               /\ result.count = config.script_count
               /\ Len(appended) = config.script_count]_vars

\* A handler call has just ended to which process_batch had returned.
JustEndedAfterBatch ==
  /\ Len(finished') = Len(finished) + 1
  /\ batch_returned'.called

IsPrefix(a, b) == Len(a) <= Len(b) /\ SubSeq(b, 1, Len(a)) = a

\* C30: every step of execute_workflow leaves the entries of
\* completed_steps, failed_steps and generated_files as they are and at most
\* appends to them; and when the handler of generate_ideas or
\* generate_scripts raises after writing some of its files, their paths are
\* in generated_files while the step is recorded in failed_steps.
C30_AppendOnlyNoRollback ==
  [][/\ IsPrefix(workflow_state.completed_steps,
                 workflow_state'.completed_steps)
     /\ IsPrefix(workflow_state.failed_steps, workflow_state'.failed_steps)
     /\ IsPrefix(workflow_state.generated_files,
                 workflow_state'.generated_files)
     /\ (JustRaised /\ CurrentStep \in {"generate_ideas", "generate_scripts"})
          => /\ (disk' \ disk) \subseteq Range(workflow_state'.generated_files)
             /\ workflow_state'.failed_steps
                  [Len(workflow_state'.failed_steps)].step = CurrentStep]_vars

\* the first idea was written and listed, the second failed, and the run
\* went on to its end
C30_Witness ==
  /\ pc = "returned"
  /\ config.idea_count = 2
  /\ config.steps = <<"generate_ideas", "create_schedule">>
  /\ FailedStepNames = <<"generate_ideas">>
  /\ workflow_state.completed_steps = <<"create_schedule">>
  /\ workflow_state.generated_files =
       <<File("content_idea", 1), File("content_schedule", 0)>>

\* the steps a workflow report names: those it holds a result for
StepsNamed(r) == DOMAIN r.step_results

\* C25: when a run has ended with a failed step, returned or aborted, the
\* command has generated a workflow report, and the report names every
\* completed step and every failed step.
C25_FailedRunIsReported ==
  (exit_status # NotEnded /\ workflow_state.failed_steps # <<>>) =>
    /\ wf_report # NoWfReport
    /\ Range(workflow_state.completed_steps) \subseteq StepsNamed(wf_report)
    /\ Range(FailedStepNames) \subseteq StepsNamed(wf_report)

(* ----------------------- claims on process_batch ----------------------- *)
NumItems == Len(batch_config.items)

\* the positions of the returned list that report item i
ResultsFor(i) == {k \in 1..Len(results) : results[k].index = i}

\* The workflow handlers' view of process_batch (BatchReturns) admits every
\* list the batch runner returns.
ReturnsWithinSummary ==
  bpc = "returned" =>
    [k \in 1..Len(results) |->
       [index |-> results[k].index, status |-> results[k].status]]
    \in BatchReturns([shape |-> "ok", n |-> NumItems,
                      continue_on_error |-> batch_config.continue_on_error])

\* C9: with continue_on_error=true, n >= 1 items and max_workers >= 1, in
\* every interleaving process_batch returns n results, exactly one for each
\* input item, each with status success or error.
C9_OneResultPerItem ==
  (bpc = "returned" /\ batch_config.continue_on_error) =>
    /\ Len(results) = NumItems
    /\ \A i \in 1..NumItems :
         /\ Cardinality(ResultsFor(i)) = 1
         /\ \A k \in ResultsFor(i) :
              /\ results[k].item = batch_config.items[i]
              /\ results[k].status \in {"success", "error"}

C9_Witness ==
  /\ bpc = "returned"
  /\ batch_config.continue_on_error
  /\ batch_config.max_workers >= 2
  /\ NumItems >= 2
  /\ results[1].index = 2
  /\ Cardinality({k \in 1..Len(results) : results[k].status = "error"}) = 1

\* the items whose handling raised
Errored == {i \in 1..NumItems : future_result[i].status = "error"}

\* an error result that carries item i, a timestamp and a message
CarriesError(r, i) ==
  /\ r.status = "error"
  /\ r.item = batch_config.items[i]
  /\ r.timestamp # None
  /\ r.message # ""

\* C10 as stated: an error raised while handling an item never leaves
\* process_batch; it becomes exactly one error result of the returned list,
\* carrying the item, a timestamp and a message, and every other item is
\* handled and reported as if nothing had happened.
C10_ErrorsIsolated ==
  /\ (batch_config.shape = "ok" => bpc # "raised")
  /\ (bpc = "returned" =>
        \A i \in Errored :
          /\ Cardinality(ResultsFor(i)) = 1
          /\ \A k \in ResultsFor(i) : CarriesError(results[k], i)
          /\ \A j \in 1..NumItems \ {i} :
               j \in started /\ Cardinality(ResultsFor(j)) = 1)

\* C10 amended: the error never leaves process_batch; the item's handler
\* turns it into an error result carrying the item, a timestamp and a
\* message, which the returned list holds at most once; with
\* continue_on_error=true it holds it exactly once and every other item is
\* handled and reported.
C10_ErrorsIsolatedWhenContinuing ==
  /\ (batch_config.shape = "ok" => bpc # "raised")
  /\ \A i \in Errored :
       /\ CarriesError(future_result[i], i)
       /\ Cardinality(ResultsFor(i)) <= 1
       /\ \A k \in ResultsFor(i) : results[k] = future_result[i]
  /\ (bpc = "returned" /\ batch_config.continue_on_error =>
        \A i \in Errored :
          /\ Cardinality(ResultsFor(i)) = 1
          /\ \A j \in 1..NumItems \ {i} :
               j \in started /\ Cardinality(ResultsFor(j)) = 1)

C10_Witness ==
  /\ bpc = "returned"
  /\ batch_config.continue_on_error
  /\ NumItems >= 2
  /\ future_result[1].status = "error"
  /\ future_result[2].status = "success"
  /\ results[1].index = 1

\* self.results only grows, at its end.
ResultsKept ==
  /\ Len(results') >= Len(results)
  /\ SubSeq(results', 1, Len(results)) = results

C12_StartedItemsReported ==
  bpc = "returned" =>
    \A i \in 1..NumItems :
      /\ i \in started => Cardinality(ResultsFor(i)) = 1
      /\ i \notin started => (ResultsFor(i) = {} /\ future[i] = "cancelled")

\* what a result says of its item, its order and timestamp left out
Content(r) == [item |-> r.item, status |-> r.status, message |-> r.message]

ReportedContent == {Content(results[k]) : k \in 1..Len(results)}

\* what the items' handlers produce, which no worker count enters
ExpectedContent == {Content(Processed(i, None)) : i \in 1..NumItems}

\* C13: with continue_on_error=true the set of results process_batch
\* returns (item, status and message, not order or timestamps) is the same
\* for every max_workers, in particular for 3 items with 1 and 3 workers:
\* it is what the items' handlers produce.
C13_ParallelismKeepsContent ==
  (bpc = "returned" /\ batch_config.continue_on_error) =>
    /\ Len(results) = NumItems
    /\ ReportedContent = ExpectedContent

C13_Witness ==
  /\ bpc = "returned"
  /\ batch_config.continue_on_error
  /\ batch_config.max_workers = 3
  /\ NumItems = 3
  /\ failing = {2}
  /\ results[1].index = 3
  /\ results[3].index = 1

C17_ConfigErrorsAbortBeforeWork ==
  (bpc # "idle" /\ batch_config.shape # "ok") =>
    /\ bpc = "raised"
    /\ \A i \in ItemIds : future[i] = "none"
    /\ started = {}
    /\ results = <<>>

\* an unknown process type, with items to process
C17_Witness ==
  /\ bpc = "raised"
  /\ batch_config.shape = "bad_type"
  /\ NumItems = 3

\* the items whose handler has written its file
WrittenItems == {i \in 1..NumItems : future_result[i].status = "success"}

\* C18: within one process_batch run, two distinct items that give no
\* filename are written under distinct names, in every interleaving and
\* also when both are handled within the same second.
C18_GeneratedNamesDistinct ==
  \A i, j \in WrittenItems :
    i # j => future_result[i].filename # future_result[j].filename

\* two items written within the same second
C18_Witness ==
  \E i, j \in WrittenItems :
    /\ i # j
    /\ future_result[i].timestamp = future_result[j].timestamp

\* C28: with continue_on_error=false the list of process_batch holds at
\* most one error result, and only as its last element: every element
\* before the last is a success result.
C28_OneErrorAtTheEnd ==
  ~batch_config.continue_on_error =>
    \A k \in 1..Len(results) :
      results[k].status = "error" => k = Len(results)

\* two items failed, one of them after the batch was stopped: the list
\* returned holds a success and then the one error
C28_Witness ==
  /\ bpc = "returned"
  /\ ~batch_config.continue_on_error
  /\ Cardinality(Errored) = 2
  /\ Len(results) = 2
  /\ results[1].status = "success"
  /\ results[2].status = "error"

\* C29: if every item handler terminates, process_batch returns, for both
\* values of continue_on_error; when it has returned no item handler is
\* running, every handler that was entered has run to its end, and none
\* runs afterwards, also after the cancellation at the first error.
C29_ReturnsAfterWorkersEnd ==
  /\ [](bpc = "returned" =>
          /\ Running = {}
          /\ \A i \in started : future[i] = "finished")
  /\ [][bpc = "returned" => (future' = future /\ started' = started)]_vars
  /\ (bpc \in {"collect", "cancel", "shutdown"} ~> bpc = "returned")

\* returned after a cancellation, with an item that was entered before its
\* cancel call, ran to its end and is not in the list
C29_Witness ==
  /\ bpc = "returned"
  /\ ~batch_config.continue_on_error
  /\ \E i \in ItemIds : future[i] = "cancelled"
  /\ \E i \in started : future[i] = "finished" /\ ResultsFor(i) = {}

(* ------------------- claims on generate_batch_report ------------------- *)
NumWith(rs, status) == Cardinality({k \in 1..Len(rs) : rs[k].status = status})

Where(rs, status) == {k \in 1..Len(rs) : rs[k].status = status}

HasFile(r) == r.status = "success" /\ r.filename # NoFile

\* C16: error_messages has no duplicates and holds exactly the messages of
\* the error results; file_list holds exactly the output filenames of the
\* success results, one entry for each in the order of the results.
C16_ReportLists ==
  report # NoReport =>
    /\ Cardinality(Range(report.error_messages)) = Len(report.error_messages)
    /\ Range(report.error_messages) =
         {report_input[k].message : k \in Where(report_input, "error")}
    /\ report.file_list = Filenames(SelectSeq(report_input, HasFile))

\* two error results with one message, another with a second message, and
\* two success results
C16_Witness ==
  /\ report # NoReport
  /\ Len(report.failed_results) = 3
  /\ Len(report.error_messages) = 2
  /\ Len(report.file_list) = 2

(* ---------------- claims on create_publishing_schedule ----------------- *)
\* create_publishing_schedule has returned.
Scheduled == schedule # NoSchedule

\* the positions of the reminders made for a day entry
RemindersFor(day) ==
  {k \in 1..Len(schedule.reminders) :
     schedule.reminders[k].content = weekly_plan.content_schedule[day].suggested_title}

PlanDays == DOMAIN weekly_plan.content_schedule

\* C19: every day entry of the plan's content_schedule gives exactly one
\* publishing_schedule entry, keyed by its weekday, and exactly three
\* reminders; so there are as many schedule entries as day entries and
\* three times as many reminders.
C19_OneEntryThreeReminders ==
  Scheduled =>
    /\ DOMAIN schedule.publishing_schedule = PlanDays
    /\ \A day \in PlanDays :
         /\ schedule.publishing_schedule[day].date =
              weekly_plan.content_schedule[day].date
         /\ Cardinality(RemindersFor(day)) = 3
    /\ Len(schedule.reminders) = 3 * Cardinality(PlanDays)

\* the plan of a whole week
C19_Witness ==
  /\ Scheduled
  /\ Cardinality(PlanDays) = 7
  /\ Len(schedule.reminders) = 21

\* C21: the time of each schedule entry is the time the weekly plan gives
\* for that day when it gives one, and otherwise the default of the weekday
\* (monday 09:00, tuesday 10:00, wednesday 14:00, thursday 11:00, friday
\* 15:00, saturday 10:00, sunday 16:00).
C21_PlanTimeOverridesDefault ==
  Scheduled =>
    \A day \in PlanDays :
      schedule.publishing_schedule[day].time =
        IF "publishing_time" \in DOMAIN weekly_plan.content_schedule[day]
        THEN weekly_plan.content_schedule[day].publishing_time
        ELSE PublishTime(day)

DayBefore(date) ==
  IF date[3] > 1 THEN <<date[1], date[2], date[3] - 1>>
  ELSE IF date[2] > 1
  THEN <<date[1], date[2] - 1, DaysInMonth(date[1], date[2] - 1)>>
  ELSE <<date[1] - 1, 12, 31>>

\* C20: the three reminders of a publish date D are dated D-3, D-1 and D,
\* in that order, with days_until 3, 1 and 0, also across a month or year
\* boundary; 2024-06-10 gives 2024-06-07, 2024-06-09, 2024-06-10.
C20_RemindersThreeOneZero ==
  Scheduled =>
    \A day \in PlanDays :
      LET D == weekly_plan.content_schedule[day].date
          first == CHOOSE k \in RemindersFor(day) :
                     \A j \in RemindersFor(day) : k <= j
          r == [k \in 1..3 |-> schedule.reminders[first + k - 1]]
      IN /\ RemindersFor(day) = first..(first + 2)
         /\ r[1].date = DayBefore(DayBefore(DayBefore(D)))
         /\ r[2].date = DayBefore(D)
         /\ r[3].date = D
         /\ <<r[1].days_until, r[2].days_until, r[3].days_until>> = <<3, 1, 0>>
         /\ \A k \in 1..3 : r[k].days_until >= 0

\* the spec's example, and a publish date whose D-3 is in the year before
C20_Witness ==
  /\ Scheduled
  /\ \E k \in 1..Len(schedule.reminders) :
       /\ k + 2 <= Len(schedule.reminders)
       /\ schedule.reminders[k].date = <<2024, 6, 7>>
       /\ schedule.reminders[k + 1].date = <<2024, 6, 9>>
       /\ schedule.reminders[k + 2].date = <<2024, 6, 10>>
       /\ schedule.reminders[k].days_until = 3
  /\ weekly_plan.week_start = <<2024, 6, 10>>

====
